---- MODULE Spec2Model ----
(***************************************************************************)
(* A model of the gophermap crate (src/src/lib.rs): the Gopher directory   *)
(* entry codec (GopherEntry::from, GopherEntry::write), the item type      *)
(* table (ItemType::from, ItemType::to_char) and the menu writer           *)
(* (GopherMenu).                                                           *)
(*                                                                         *)
(* A Rust `char` is modelled as a one-character string and a `&str` as a   *)
(* sequence of such characters.  Option<T> is a record tagged "Some" or    *)
(* "None".                                                                 *)
(***************************************************************************)
EXTENDS Integers, Sequences, FiniteSets, TLC

VARIABLES
    pc,          \* position of the driver of the specification in use
    tc,          \* SpecItemType: the character given to ItemType::from
    ty,          \* SpecItemType: the ItemType it returned
    tch,         \* SpecItemType: the character to_char returned for ty
    line,        \* SpecDecode: the line given to GopherEntry::from
    decoded,     \* SpecDecode: the Option<GopherEntry> returned for line
    decodedFour, \* SpecDecode: the Option returned for the first four fields
    entry,       \* SpecEncode: the entry given to GopherEntry::write
    wire,        \* SpecEncode: the bytes write left in the (empty) sink
    redecoded,   \* SpecEncode: GopherEntry::from of those bytes
    sink,        \* SpecMenu: the bytes held by the menu's target
    calls,       \* SpecMenu: the successful GopherMenu calls, in call order
    failed       \* SpecMenu: a write to the target has returned Err

vars == <<pc, tc, ty, tch, line, decoded, decodedFour, entry, wire, redecoded,
          sink, calls, failed>>

-----------------------------------------------------------------------------
(* Characters *)

TAB == "\t"
CR == "\r"
LF == "\n"

Digits == <<"0", "1", "2", "3", "4", "5", "6", "7", "8", "9">>

IsDigit(c) == \E i \in 1..Len(Digits) : Digits[i] = c

\* char::to_digit(10) of a decimal digit
DigitVal(c) == (CHOOSE i \in 1..Len(Digits) : Digits[i] = c) - 1

\* u16::MAX, the largest value of GopherEntry::port
U16Max == 65535

None == [tag |-> "None"]
Some(v) == [tag |-> "Some", value |-> v]
Pending == [tag |-> "Pending"]

-----------------------------------------------------------------------------
(* enum ItemType *)

Named(k) == [kind |-> k]
Other(c) == [kind |-> "Other", c |-> c]

\* ItemType::to_char with the Gif arm returning 'G'
to_char_GifUpper(t) ==
    CASE t = Named("File") -> "0"
      [] t = Named("Directory") -> "1"
      [] t = Named("CsoServer") -> "2"
      [] t = Named("Error") -> "3"
      [] t = Named("BinHex") -> "4"
      [] t = Named("DosBinary") -> "5"
      [] t = Named("Uuencoded") -> "6"
      [] t = Named("Search") -> "7"
      [] t = Named("Telnet") -> "8"
      [] t = Named("Binary") -> "9"
      [] t = Named("RedundantServer") -> "+"
      [] t = Named("Tn3270") -> "T"
      [] t = Named("Gif") -> "G"
      [] t = Named("Image") -> "I"
      [] t = Named("Info") -> "i"
      [] OTHER -> t.c

ItemType_from(c) ==
    CASE c = "0" -> Named("File")
      [] c = "1" -> Named("Directory")
      [] c = "2" -> Named("CsoServer")
      [] c = "3" -> Named("Error")
      [] c = "4" -> Named("BinHex")
      [] c = "5" -> Named("DosBinary")
      [] c = "6" -> Named("Uuencoded")
      [] c = "7" -> Named("Search")
      [] c = "8" -> Named("Telnet")
      [] c = "9" -> Named("Binary")
      [] c = "+" -> Named("RedundantServer")
      [] c = "T" -> Named("Tn3270")
      [] c = "g" -> Named("Gif")
      [] c = "I" -> Named("Image")
      [] c = "i" -> Named("Info")
      [] OTHER -> Other(c)

to_char(t) ==
    CASE t = Named("File") -> "0"
      [] t = Named("Directory") -> "1"
      [] t = Named("CsoServer") -> "2"
      [] t = Named("Error") -> "3"
      [] t = Named("BinHex") -> "4"
      [] t = Named("DosBinary") -> "5"
      [] t = Named("Uuencoded") -> "6"
      [] t = Named("Search") -> "7"
      [] t = Named("Telnet") -> "8"
      [] t = Named("Binary") -> "9"
      [] t = Named("RedundantServer") -> "+"
      [] t = Named("Tn3270") -> "T"
      [] t = Named("Gif") -> "g"
      [] t = Named("Image") -> "I"
      [] t = Named("Info") -> "i"
      [] OTHER -> t.c

-----------------------------------------------------------------------------
(* GopherEntry::from *)

\* The terminator check that looks at the last character only
StripTerminator_LfOnly(l) ==
    IF Len(l) = 0 THEN None
    ELSE IF l[Len(l)] # LF THEN None
    ELSE IF Len(l) = 1 THEN None
    ELSE Some(SubSeq(l, 1, Len(l) - 2))

\* lines 34-40: two next_back() calls take LF and then CR off the end of the
\* line; the `?` of either and the failed comparison all return None
StripTerminator(l) ==
    IF Len(l) = 0 THEN None
    ELSE IF l[Len(l)] # LF THEN None
    ELSE IF Len(l) = 1 THEN None
    ELSE IF l[Len(l) - 1] # CR THEN None
    ELSE Some(SubSeq(l, 1, Len(l) - 2))

\* line 42: str::split('\t'), all the items the iterator yields, in order
RECURSIVE split(_)
split(s) ==
    IF \A i \in 1..Len(s) : s[i] # TAB
        THEN <<s>>
        ELSE LET i == CHOOSE j \in 1..Len(s) :
                          s[j] = TAB /\ \A k \in 1..(j - 1) : s[k] # TAB
             IN <<SubSeq(s, 1, i - 1)>> \o split(SubSeq(s, i + 1, Len(s)))

\* parts.next(): the i-th item of the iterator, None once it is exhausted
next(parts, i) == IF i <= Len(parts) THEN Some(parts[i]) ELSE None

\* The display string taken as the whole first field
display_string_NoSkip(part) ==
    IF Len(part) < 2 THEN None ELSE Some(part)

\* lines 47-49: char_indices().skip(1).next()? is the position of the second
\* character of the first field, and the display string starts there
display_string(part) ==
    IF Len(part) < 2 THEN None ELSE Some(Tail(part))

RECURSIVE parse_digits(_, _)
parse_digits(d, acc) ==
    IF Len(d) = 0 THEN Some(acc)
    ELSE IF ~IsDigit(Head(d)) THEN None
    ELSE LET n == acc * 10 + DigitVal(Head(d))
         IN IF n > U16Max THEN None ELSE parse_digits(Tail(d), n)

\* str::parse::<u16> without the optional plus sign
parse_NoPlus(s) ==
    IF Len(s) = 0 THEN None
    ELSE parse_digits(s, 0)

\* line 53: str::parse::<u16>().ok(): None for the empty string and for a lone
\* sign; one leading '+' is dropped; '-' is no digit of an unsigned type; a
\* value above u16::MAX overflows
parse(s) ==
    IF Len(s) = 0 THEN None
    ELSE IF s = <<"+">> \/ s = <<"-">> THEN None
    ELSE IF Head(s) = "+" THEN parse_digits(Tail(s), 0)
    ELSE parse_digits(s, 0)

\* GopherEntry::from that returns None when a fifth field follows the port
GopherEntry_from_RejectExtra(l) ==
    LET stripped == StripTerminator(l) IN
    IF stripped = None THEN None
    ELSE LET body == stripped.value
             parts == split(body)
         IN IF Len(body) = 0 \/ Len(parts) # 4 THEN None
            ELSE LET d == display_string(parts[1])
                     p == parse(parts[4])
                 IN IF d = None \/ p = None THEN None
                    ELSE Some([item_type |-> ItemType_from(body[1]),
                               display_string |-> d.value,
                               selector |-> parts[2],
                               host |-> parts[3],
                               port |-> p.value])

GopherEntry_from(l) ==
    LET stripped == StripTerminator(l) IN
    IF stripped = None THEN None
    ELSE LET body == stripped.value
             parts == split(body)
         IN IF Len(body) = 0 THEN None
            ELSE LET first == next(parts, 1)
                     d == IF first = None THEN None
                          ELSE display_string(first.value)
                     sel == next(parts, 2)
                     hst == next(parts, 3)
                     prt == next(parts, 4)
                     p == IF prt = None THEN None ELSE parse(prt.value)
                 IN IF d = None \/ sel = None \/ hst = None \/ p = None
                        THEN None
                        ELSE Some([item_type |-> ItemType_from(body[1]),
                                   display_string |-> d.value,
                                   selector |-> sel.value,
                                   host |-> hst.value,
                                   port |-> p.value])

-----------------------------------------------------------------------------
(* GopherEntry::write *)

\* line 70: `{}` of a u16, its decimal digits
RECURSIVE fmt_u16(_)
fmt_u16(n) ==
    IF n < 10 THEN <<Digits[n + 1]>>
    ELSE fmt_u16(n \div 10) \o <<Digits[(n % 10) + 1]>>

\* GopherEntry::write with the port zero-padded, as `{:05}` would do
GopherEntry_write_ZeroPadded(e) ==
    <<to_char(e.item_type)>> \o e.display_string \o <<TAB>>
        \o e.selector \o <<TAB>> \o e.host \o <<TAB>>
        \o <<"0">> \o fmt_u16(e.port) \o <<CR, LF>>

\* lines 63-72: the bytes write! gives to the sink
GopherEntry_write(e) ==
    <<to_char(e.item_type)>> \o e.display_string \o <<TAB>>
        \o e.selector \o <<TAB>> \o e.host \o <<TAB>>
        \o fmt_u16(e.port) \o <<CR, LF>>

-----------------------------------------------------------------------------
(* Inputs *)

\* longest display string, selector and host of an input
MaxStrLen == 1
\* most tab-delimited fields of an input line
MaxFields == 5
\* most GopherMenu calls on one sink
MaxCalls == 3

\* the strings over an alphabet of at most n characters
Strs(alphabet, n) == UNION {[1..k -> alphabet] : k \in 0..n}

Kinds == {"File", "Directory", "CsoServer", "Error", "BinHex", "DosBinary",
          "Uuencoded", "Search", "Telnet", "Binary", "RedundantServer",
          "Tn3270", "Gif", "Image", "Info"}

\* characters given to ItemType::from: the table's and others
Chars == {"0", "1", "2", "3", "4", "5", "6", "7", "8", "9", "+", "T", "g",
          "I", "i", "Z", "G", "t", "a", "b", "d", "h", "s", "x", "F", "A",
          "K", "E", "/", ".", "-", " ", "?", "*", "_", TAB, CR, LF}

RECURSIVE join(_)
join(fields) ==
    IF Len(fields) = 0 THEN <<>>
    ELSE IF Len(fields) = 1 THEN fields[1]
    ELSE fields[1] \o <<TAB>> \o join(Tail(fields))

FirstFields ==
    {<<>>} \cup {<<c>> \o d : c \in {"1", "i", "Z"},
                             d \in Strs({"a", CR}, MaxStrLen)}

PortFields ==
    { <<>>, <<"0">>, <<"7", "0">>, <<"0", "7", "0">>, <<"+", "7", "0">>,
      <<"+">>, <<"-">>, <<"-", "1">>, <<"-", "0">>, <<"+", "+", "7">>,
      <<"7", "x">>, <<"7", "+">>, <<"6", "5", "5", "3", "5">>,
      <<"6", "5", "5", "3", "6">>, <<"+", "6", "5", "5", "3", "5">>,
      <<"0", "6", "5", "5", "3", "5">>, <<"6", "5", "5", "3", "5", "0">>,
      <<"9", "9", "9", "9", "9">> }

\* the values the i-th tab-delimited field of an input line takes
FieldValues(i) ==
    CASE i = 1 -> FirstFields
      [] i = 2 -> Strs({"s"}, MaxStrLen)
      [] i = 3 -> Strs({"h", LF}, MaxStrLen)
      [] i = 4 -> PortFields
      [] OTHER -> {<<>>, <<"x">>}

RECURSIVE FieldSeqs(_)
FieldSeqs(n) ==
    IF n = 0 THEN {<<>>}
    ELSE {Append(f, x) : f \in FieldSeqs(n - 1), x \in FieldValues(n)}

Terminators == {<<>>, <<LF>>, <<CR>>, <<CR, LF>>}

ItemTypes == {Named(k) : k \in Kinds} \cup {Other("Z"), Other("1")}

PortValues == {0, 1, 9, 10, 70, 100, 1234, 65535}

Entries ==
    [item_type : ItemTypes,
     display_string : Strs({"a", TAB}, MaxStrLen),
     selector : Strs({"s"}, MaxStrLen),
     host : Strs({"h", CR}, MaxStrLen),
     port : PortValues]

NoEntry ==
    [item_type |-> Named("File"), display_string |-> <<>>, selector |-> <<>>,
     host |-> <<>>, port |-> 0]

EndsInCRLF(l) == Len(l) >= 2 /\ l[Len(l) - 1] = CR /\ l[Len(l)] = LF

\* the tab-delimited fields of a line before its final CR LF
FieldsOf(l) == split(SubSeq(l, 1, Len(l) - 2))

\* the line made of the first four fields of l, followed by CR LF
FirstFour(l) == join(SubSeq(FieldsOf(l), 1, 4)) \o <<CR, LF>>

-----------------------------------------------------------------------------
(* ItemType::from and ItemType::to_char applied to a character *)

InitItemType ==
    /\ pc = "start"
    /\ tc \in Chars
    /\ ty = Pending
    /\ tch = "0"
    /\ line = <<>> /\ decoded = Pending /\ decodedFour = Pending
    /\ entry = NoEntry /\ wire = <<>> /\ redecoded = Pending
    /\ sink = <<>> /\ calls = <<>> /\ failed = FALSE

FromChar ==
    /\ pc = "start"
    /\ ty' = ItemType_from(tc)
    /\ pc' = "typed"
    /\ UNCHANGED <<tc, tch, line, decoded, decodedFour, entry, wire,
                   redecoded, sink, calls, failed>>

ToChar ==
    /\ pc = "typed"
    /\ tch' = to_char(ty)
    /\ pc' = "charred"
    /\ UNCHANGED <<tc, ty, line, decoded, decodedFour, entry, wire,
                   redecoded, sink, calls, failed>>

NextItemType == FromChar \/ ToChar

SpecItemType == InitItemType /\ [][NextItemType]_vars

-----------------------------------------------------------------------------
(* GopherEntry::from applied to a line *)

InitDecode ==
    /\ pc = "start"
    /\ \E n \in 1..MaxFields : \E f \in FieldSeqs(n) : \E t \in Terminators :
           line = join(f) \o t
    /\ decoded = Pending /\ decodedFour = Pending
    /\ tc = "0" /\ ty = Pending /\ tch = "0"
    /\ entry = NoEntry /\ wire = <<>> /\ redecoded = Pending
    /\ sink = <<>> /\ calls = <<>> /\ failed = FALSE

Decode ==
    /\ pc = "start"
    /\ decoded' = GopherEntry_from(line)
    /\ pc' = "decoded"
    /\ UNCHANGED <<tc, ty, tch, line, decodedFour, entry, wire, redecoded,
                   sink, calls, failed>>

\* the same call on the line cut after its fourth field
DecodeFirstFour ==
    /\ pc = "decoded"
    /\ EndsInCRLF(line)
    /\ Len(FieldsOf(line)) > 4
    /\ decodedFour' = GopherEntry_from(FirstFour(line))
    /\ pc' = "both"
    /\ UNCHANGED <<tc, ty, tch, line, decoded, entry, wire, redecoded,
                   sink, calls, failed>>

NextDecode == Decode \/ DecodeFirstFour

SpecDecode == InitDecode /\ [][NextDecode]_vars

-----------------------------------------------------------------------------
(* GopherEntry::write into an empty sink, and GopherEntry::from of the bytes *)

InitEncode ==
    /\ pc = "start"
    /\ entry \in Entries
    /\ wire = <<>> /\ redecoded = Pending
    /\ tc = "0" /\ ty = Pending /\ tch = "0"
    /\ line = <<>> /\ decoded = Pending /\ decodedFour = Pending
    /\ sink = <<>> /\ calls = <<>> /\ failed = FALSE

Encode ==
    /\ pc = "start"
    /\ wire' = wire \o GopherEntry_write(entry)
    /\ pc' = "written"
    /\ UNCHANGED <<tc, ty, tch, line, decoded, decodedFour, entry, redecoded,
                   sink, calls, failed>>

Redecode ==
    /\ pc = "written"
    /\ redecoded' = GopherEntry_from(wire)
    /\ pc' = "reread"
    /\ UNCHANGED <<tc, ty, tch, line, decoded, decodedFour, entry, wire,
                   sink, calls, failed>>

NextEncode == Encode \/ Redecode

SpecEncode == InitEncode /\ [][NextEncode]_vars

-----------------------------------------------------------------------------
(* GopherMenu: calls on one target *)

FAKE == <<"F", "A", "K", "E">>
fake_host == <<"f", "a", "k", "e", ".", "h", "o", "s", "t">>

GopherEntry(item_type, text, selector, host, port) ==
    [item_type |-> item_type, display_string |-> text, selector |-> selector,
     host |-> host, port |-> port]

MenuTexts == {<<>>, <<"a">>}

MenuEntries ==
    [item_type : {Named("Directory"), Other("Z")},
     display_string : {<<>>, <<"b">>},
     selector : {<<"/", "x">>},
     host : {<<"h">>},
     port : {70, 65535}]

\* the bytes of every call the menu can make
MenuWrites ==
    {GopherEntry_write(GopherEntry(t, x, FAKE, fake_host, 1)) :
        t \in {Named("Info"), Named("Error")}, x \in MenuTexts}
    \cup {GopherEntry_write(e) : e \in MenuEntries}
    \cup {<<".", CR, LF>>}

InitMenu ==
    /\ pc = "menu"
    /\ sink = <<>> /\ calls = <<>> /\ failed = FALSE
    /\ tc = "0" /\ ty = Pending /\ tch = "0"
    /\ line = <<>> /\ decoded = Pending /\ decodedFour = Pending
    /\ entry = NoEntry /\ wire = <<>> /\ redecoded = Pending

\* a call can be made while the listing is being built
CanCall == pc = "menu" /\ ~failed /\ Len(calls) < MaxCalls

\* GopherMenu::info writing the placeholder port 0
info_PortZero(text) ==
    /\ CanCall
    /\ sink' = sink \o GopherEntry_write(
                   GopherEntry(Named("Info"), text, FAKE, fake_host, 0))
    /\ calls' = Append(calls, [op |-> "info", text |-> text])
    /\ UNCHANGED <<pc, failed, tc, ty, tch, line, decoded, decodedFour,
                   entry, wire, redecoded>>

\* lines 91-93, through write_entry and GopherEntry::write, all writes Ok
info(text) ==
    /\ CanCall
    /\ sink' = sink \o GopherEntry_write(
                   GopherEntry(Named("Info"), text, FAKE, fake_host, 1))
    /\ calls' = Append(calls, [op |-> "info", text |-> text])
    /\ UNCHANGED <<pc, failed, tc, ty, tch, line, decoded, decodedFour,
                   entry, wire, redecoded>>

\* lines 95-97
error(text) ==
    /\ CanCall
    /\ sink' = sink \o GopherEntry_write(
                   GopherEntry(Named("Error"), text, FAKE, fake_host, 1))
    /\ calls' = Append(calls, [op |-> "error", text |-> text])
    /\ UNCHANGED <<pc, failed, tc, ty, tch, line, decoded, decodedFour,
                   entry, wire, redecoded>>

\* lines 99-115
write_entry(item_type, text, selector, host, port) ==
    /\ CanCall
    /\ sink' = sink \o GopherEntry_write(
                   GopherEntry(item_type, text, selector, host, port))
    /\ calls' = Append(calls,
                       [op |-> "write_entry",
                        entry |-> GopherEntry(item_type, text, selector,
                                              host, port)])
    /\ UNCHANGED <<pc, failed, tc, ty, tch, line, decoded, decodedFour,
                   entry, wire, redecoded>>

\* lines 117-119
end ==
    /\ CanCall
    /\ sink' = sink \o <<".", CR, LF>>
    /\ calls' = Append(calls, [op |-> "end"])
    /\ UNCHANGED <<pc, failed, tc, ty, tch, line, decoded, decodedFour,
                   entry, wire, redecoded>>

\* a call whose write to the target fails: the `?` of line 71 (and write! of
\* line 118) returns the Err at once, after the target has taken any part of
\* the bytes; the caller gets Err and the listing is given up
write_err ==
    /\ CanCall
    /\ \E bytes \in MenuWrites : \E k \in 0..(Len(bytes) - 1) :
           sink' = sink \o SubSeq(bytes, 1, k)
    /\ failed' = TRUE
    /\ UNCHANGED <<pc, calls, tc, ty, tch, line, decoded, decodedFour,
                   entry, wire, redecoded>>

NextMenu ==
    \/ \E text \in MenuTexts : info(text)
    \/ \E text \in MenuTexts : error(text)
    \/ \E e \in MenuEntries :
           write_entry(e.item_type, e.display_string, e.selector, e.host,
                       e.port)
    \/ end
    \/ write_err

SpecMenu == InitMenu /\ [][NextMenu]_vars

-----------------------------------------------------------------------------
(* Properties *)

\* s holds no tab, CR or LF
NoDelim(s) == \A i \in 1..Len(s) : s[i] \notin {TAB, CR, LF}

AllDigits(s) == \A i \in 1..Len(s) : IsDigit(s[i])

\* the number a string of decimal digits denotes
RECURSIVE Value(_)
Value(d) ==
    IF Len(d) = 0 THEN 0
    ELSE 10 * Value(SubSeq(d, 1, Len(d) - 1)) + DigitVal(d[Len(d)])

\* s without one leading '+'
Unsigned(s) == IF Len(s) > 0 /\ s[1] = "+" THEN Tail(s) ELSE s

\* a non-empty string of decimal digits denoting a value in 0..65535
IsPortDigits(s) == Len(s) > 0 /\ AllDigits(s) /\ Value(s) <= U16Max

\* the same, optionally preceded by one '+'
IsPortText(s) == IsPortDigits(Unsigned(s))

\* decimal digits with no sign and no leading zeros
CanonicalDecimal(d) ==
    Len(d) >= 1 /\ AllDigits(d) /\ (Len(d) > 1 => d[1] # "0")

\* C1: round-trip: for every entry whose display string, selector and host
\* hold no tab, CR or LF (empty strings included), GopherEntry::from of the
\* bytes GopherEntry::write produced is Some(entry), equal field by field.
C1_RoundTrip ==
    (pc = "reread" /\ NoDelim(entry.display_string)
         /\ NoDelim(entry.selector) /\ NoDelim(entry.host))
        => redecoded = Some(entry)

\* C2: whenever GopherEntry::from returns Some(entry), the line ends in CR LF
\* and, of its tab-delimited fields before the CR LF, item_type is
\* ItemType::from of the first character of the first field, display_string is
\* the first field without its first character, selector and host are the
\* second and third fields verbatim and port is the value of the fourth.
C2_DecodedFields ==
    (pc # "start" /\ decoded # None) =>
        /\ EndsInCRLF(line)
        /\ LET f == FieldsOf(line) IN
            /\ Len(f) >= 4
            /\ Len(f[1]) >= 1
            /\ decoded.value.item_type = ItemType_from(f[1][1])
            /\ decoded.value.display_string = Tail(f[1])
            /\ decoded.value.selector = f[2]
            /\ decoded.value.host = f[3]
            /\ AllDigits(Unsigned(f[4]))
            /\ decoded.value.port = Value(Unsigned(f[4]))

\* C2 witness: "1a\ts\th\t70\r\n" decodes to Directory, "a", "s", "h", 70
C2_Witness ==
    /\ pc = "decoded"
    /\ line = <<"1", "a", TAB, "s", TAB, "h", TAB, "7", "0", CR, LF>>
    /\ decoded = Some([item_type |-> Named("Directory"),
                       display_string |-> <<"a">>, selector |-> <<"s">>,
                       host |-> <<"h">>, port |-> 70])

\* C3: GopherEntry::write puts in the sink exactly the type character, the
\* display string, a tab, the selector, a tab, the host, a tab, the port as
\* decimal digits with no sign and no leading zeros, and CR LF; the strings
\* are written as they are.
C3_WireFormat ==
    pc # "start" =>
        LET head == <<to_char(entry.item_type)>> \o entry.display_string
                        \o <<TAB>> \o entry.selector \o <<TAB>>
                        \o entry.host \o <<TAB>>
            digits == SubSeq(wire, Len(head) + 1, Len(wire) - 2)
        IN  /\ Len(wire) >= Len(head) + 3
            /\ SubSeq(wire, 1, Len(head)) = head
            /\ SubSeq(wire, Len(wire) - 1, Len(wire)) = <<CR, LF>>
            /\ CanonicalDecimal(digits)
            /\ Value(digits) = entry.port

\* C3 witness: an entry with a tab as display string and port 65535, written
C3_Witness ==
    /\ pc = "written"
    /\ entry = GopherEntry(Other("Z"), <<TAB>>, <<"s">>, <<CR>>, U16Max)
    /\ wire = <<"Z", TAB, TAB, "s", TAB, CR, TAB, "6", "5", "5", "3", "5",
                CR, LF>>

\* C4: GopherEntry::from returns None exactly when the line does not end in
\* CR LF, or its first field is empty, or it has fewer than four fields, or
\* its fourth field is no port in 0..65535; every other line decodes, an empty
\* display string, selector or host included.
C4_NoneExactly ==
    pc # "start" =>
        IF ~EndsInCRLF(line) THEN decoded = None
        ELSE LET f == FieldsOf(line) IN
             IF Len(f) < 4 \/ Len(f[1]) = 0 THEN decoded = None
             ELSE (decoded = None) <=> ~IsPortText(f[4])

\* C5: GopherEntry::from returns None for every line whose last two
\* characters are not CR LF: the empty line, a one-character line, a bare LF,
\* a bare CR, no terminator.
C5_TerminatorRejection ==
    (pc # "start" /\ ~EndsInCRLF(line)) => decoded = None

\* C5 witness: "1a\ts\th\t70\n", well formed but for the bare LF, is rejected
C5_Witness ==
    /\ pc = "decoded"
    /\ line = <<"1", "a", TAB, "s", TAB, "h", TAB, "7", "0", LF>>
    /\ decoded = None

\* a line that ends in CR LF and has four fields or more, the first of them
\* holding a type character and a non-empty display string
WellFormedButPort(l) ==
    /\ EndsInCRLF(l)
    /\ Len(FieldsOf(l)) >= 4
    /\ Len(FieldsOf(l)[1]) >= 2

\* C6 as stated: in such a line the fourth field is accepted exactly when it
\* is a non-empty string of decimal digits with a value in 0..65535 (a field
\* carrying a sign is rejected), and the decoded port is that value.
C6_PortDigitsOnly ==
    (pc # "start" /\ WellFormedButPort(line)) =>
        LET p == FieldsOf(line)[4] IN
        IF IsPortDigits(p)
            THEN decoded # None /\ decoded.value.port = Value(p)
            ELSE decoded = None

\* C6 amended: in such a line the fourth field is accepted exactly when it is
\* a non-empty string of decimal digits, optionally preceded by one '+', with
\* a value in 0..65535, and the decoded port is that value; the empty field, a
\* lone sign, "-1", "-0", a non-digit and a value above 65535 are rejected.
C6_PortPlusDigits ==
    (pc # "start" /\ WellFormedButPort(line)) =>
        LET p == FieldsOf(line)[4] IN
        IF IsPortText(p)
            THEN decoded # None /\ decoded.value.port = Value(Unsigned(p))
            ELSE decoded = None

\* C6 witness: "1a\ts\th\t+70\r\n" decodes with port 70
C6_Witness ==
    /\ pc = "decoded"
    /\ line = <<"1", "a", TAB, "s", TAB, "h", TAB, "+", "7", "0", CR, LF>>
    /\ decoded # None
    /\ decoded.value.port = 70

\* the item type table: character, kind
ItemTypeTable ==
    { <<"0", "File">>, <<"1", "Directory">>, <<"2", "CsoServer">>,
      <<"3", "Error">>, <<"4", "BinHex">>, <<"5", "DosBinary">>,
      <<"6", "Uuencoded">>, <<"7", "Search">>, <<"8", "Telnet">>,
      <<"9", "Binary">>, <<"+", "RedundantServer">>, <<"T", "Tn3270">>,
      <<"g", "Gif">>, <<"I", "Image">>, <<"i", "Info">> }

\* C7: ItemType::from maps each of the 15 table characters to its kind and
\* every other character c to Other(c), and to_char of the result is the
\* character ItemType::from was given.
C7_ItemTypeTable ==
    /\ pc # "start" =>
        /\ \A p \in ItemTypeTable : tc = p[1] => ty = Named(p[2])
        /\ (\A p \in ItemTypeTable : tc # p[1]) => ty = Other(tc)
    /\ pc = "charred" => tch = tc

\* C7 witness: 'Z' has become Other('Z') and to_char has returned 'Z'
C7_Witness ==
    pc = "charred" /\ tc = "Z" /\ ty = Other("Z") /\ tch = "Z"

\* the line a successful call leaves in the sink
ExpectedLine(call) ==
    CASE call.op = "info" ->
            <<"i">> \o call.text \o <<TAB, "F", "A", "K", "E", TAB, "f", "a",
                "k", "e", ".", "h", "o", "s", "t", TAB, "1", CR, LF>>
      [] call.op = "error" ->
            <<"3">> \o call.text \o <<TAB, "F", "A", "K", "E", TAB, "f", "a",
                "k", "e", ".", "h", "o", "s", "t", TAB, "1", CR, LF>>
      [] call.op = "write_entry" -> GopherEntry_write(call.entry)
      [] call.op = "end" -> <<".", CR, LF>>

RECURSIVE ExpectedSink(_)
ExpectedSink(cs) ==
    IF Len(cs) = 0 THEN <<>>
    ELSE ExpectedSink(SubSeq(cs, 1, Len(cs) - 1)) \o ExpectedLine(cs[Len(cs)])

\* C8: after any sequence of successful GopherMenu calls the sink holds the
\* concatenation, in call order, of one line per call and nothing else.
C8_MenuSequencing ==
    (pc = "menu" /\ ~failed) => sink = ExpectedSink(calls)

\* C8 witness: info, write_entry and end have been called, in that order
C8_Witness ==
    /\ pc = "menu" /\ ~failed
    /\ Len(calls) = 3
    /\ calls[1] = [op |-> "info", text |-> <<"a">>]
    /\ calls[2].op = "write_entry"
    /\ calls[3].op = "end"
    /\ sink = <<"i", "a", TAB, "F", "A", "K", "E", TAB, "f", "a", "k", "e",
                ".", "h", "o", "s", "t", TAB, "1", CR, LF,
                "1", "b", TAB, "/", "x", TAB, "h", TAB, "7", "0", CR, LF,
                ".", CR, LF>>

\* C9: whenever GopherEntry::from returns Some(entry), the display string,
\* the selector and the host hold no tab, no CR and no LF.
C9_NoDelimiters ==
    (pc # "start" /\ decoded # None) =>
        /\ NoDelim(decoded.value.display_string)
        /\ NoDelim(decoded.value.selector)
        /\ NoDelim(decoded.value.host)

\* C10: for a line with more than four tab-delimited fields before its final
\* CR LF, GopherEntry::from returns what it returns for the line made of the
\* first four fields and CR LF.
C10_ExtraFieldsDropped ==
    pc = "both" => decoded = decodedFour

\* C10 witness: "1a\ts\th\t70\tx\r\n" decodes as "1a\ts\th\t70\r\n" does
C10_Witness ==
    /\ pc = "both"
    /\ line = <<"1", "a", TAB, "s", TAB, "h", TAB, "7", "0", TAB, "x", CR,
                LF>>
    /\ decoded # None
    /\ decoded.value.port = 70
    /\ decoded = decodedFour

====
